---- MODULE Spec2Model ----
(***************************************************************************)
(* Model of codeserver-repository-loader.js: the batched replay of the     *)
(* commits of branchTo..branchFrom onto the target branch.                 *)
(*                                                                         *)
(* The script is one async control flow.  Every action below is one        *)
(* continuation of that flow: the completion of the operation that is      *)
(* outstanding, followed by the synchronous code up to and including the   *)
(* issue of the next awaited operation.  The callback of request.post is   *)
(* the only other handler.                                                 *)
(***************************************************************************)
EXTENDS Integers, Sequences, FiniteSets, TLC

\* ---- program constants ------------------------------------------------
BULK_SIZE == 50

\* ---- bounds of the model ----------------------------------------------
\* largest number of commits in branchTo..branchFrom that is explored
MaxCommits == 120

\* ---- values -----------------------------------------------------------
\* JavaScript's undefined, as an array read past the end yields it
Undefined == -1
\* the empty string that follows the last newline of rev-list's output
Blank == -2

\* A value with its JavaScript type, for the comparisons that depend on it
Num(n) == [type |-> "number", val |-> n]
Str(n) == [type |-> "string", val |-> n]
NotAssigned == [type |-> "undefined", val |-> 0]

\* a === b : no conversion, values of different types are never equal
StrictEquals(a, b) == a.type = b.type /\ a.val = b.val

\* arr[idx] of a JavaScript array (0-based, undefined outside the array)
ArrayGet(arr, idx) == IF idx >= 0 /\ idx < Len(arr) THEN arr[idx + 1] ELSE Undefined

\* How a child process can end: exit status zero or not, stderr empty or not
Outcomes == {"ok", "stderr", "exit", "exit_stderr"}

\* util.promisify(child_process.exec): the promise rejects on a non-zero exit
Rejects(o) == o \in {"exit", "exit_stderr"}

\* the `stderr` of the result is a non-empty string
HasStderr(o) == o \in {"stderr", "exit_stderr"}

\* request.post calls back with an error or with a response
NotifyOutcomes == {"ok", "error"}

\* the command line: which options were given
OptionNames == {"code-cache-api", "branch-target", "owner", "repo", "repo-dir"}

VARIABLES
    args,                     \* yargs.argv: option name -> given or not
    repoCommits,              \* number of commits in branchTo..branchFrom
    pc,                       \* position of the control flow
    calls,                    \* operations issued so far, with their outcome
    console,                  \* lines written to the console
    totalOfCommitsToOnboard,  \* local of onboardCommits
    commits,                  \* local of onboardCommits
    i,                        \* loop variable of onboardCommits
    commitId,                 \* the commit of the stride in progress
    thrown                    \* why the promise of onboardCommits rejected

vars == <<args, repoCommits, pc, calls, console, totalOfCommitsToOnboard,
          commits, i, commitId, thrown>>

\* ---- module-wide bindings (lines 28-33) --------------------------------
\* args['code-cache-api'] || 'https://...': truthy whatever was given
codeCacheAPI(a) == a["code-cache-api"] \/ TRUE
branchTo(a) == a["branch-target"]
owner(a) == a["owner"]
repo(a) == a["repo"]
repoDir(a) == a["repo-dir"]

\* ---- helpers ----------------------------------------------------------
Issue(cs, op, arg) == Append(cs, [op |-> op, arg |-> arg, res |-> "pending"])

Log(c, msg, arg) == Append(c, <<msg, arg>>)

\* the subprocess or timer the control flow is waiting for
Outstanding == CHOOSE j \in 1..Len(calls) :
                  calls[j].res = "pending" /\ calls[j].op # "notify"

Complete(cs, j, o) == [cs EXCEPT ![j].res = o]

\* ---- validateParameters (lines 141-173) --------------------------------
MissingParameter(a) ==
    IF ~codeCacheAPI(a) THEN "--code-cache-api"
    ELSE IF ~branchTo(a) THEN "--branch-target"
    ELSE IF ~owner(a) THEN "--owner"
    ELSE IF ~repo(a) THEN "--repo"
    ELSE IF ~repoDir(a) THEN "--repo-dir"
    ELSE "none"

\* validateParameters without its last check, the one of --repo-dir
validateParameters_NoRepoDirCheck(a) == MissingParameter(a) \in {"none", "--repo-dir"}

validateParameters(a) == MissingParameter(a) = "none"

\* ---- getTotalOfCommitsToOnboard (lines 74-80) --------------------------
\* rev-list --count prints the number as text; stdout is returned as it is
\* getTotalOfCommitsToOnboard without the test of stderr
getTotalOfCommitsToOnboard_IgnoresStderr(o, n) ==
    IF Rejects(o) THEN [kind |-> "rejected", value |-> NotAssigned]
    ELSE [kind |-> "returned", value |-> Str(n)]

getTotalOfCommitsToOnboard(o, n) ==
    IF Rejects(o) THEN [kind |-> "rejected", value |-> NotAssigned]
    ELSE IF HasStderr(o) THEN [kind |-> "thrown", value |-> NotAssigned]
    ELSE [kind |-> "returned", value |-> Str(n)]

\* ---- loadCommitsToOnboard (lines 93-102) -------------------------------
\* stdout of rev-list --reverse: one line per commit, oldest first; the
\* commit at position k of the history is named k
RevListStdout(n) == [k \in 1..n |-> k - 1]

\* stdout.split('\n'): every line ends with a newline, so a blank follows
SplitLines(lines) == Append(lines, Blank)

\* commits.pop()
Pop(arr) == IF Len(arr) = 0 THEN arr ELSE SubSeq(arr, 1, Len(arr) - 1)

\* loadCommitsToOnboard without the test of stderr
loadCommitsToOnboard_IgnoresStderr(o, n) ==
    IF Rejects(o) THEN [kind |-> "rejected", value |-> <<>>]
    ELSE [kind |-> "returned", value |-> Pop(SplitLines(RevListStdout(n)))]

loadCommitsToOnboard(o, n) ==
    IF Rejects(o) THEN [kind |-> "rejected", value |-> <<>>]
    ELSE IF HasStderr(o) THEN [kind |-> "thrown", value |-> <<>>]
    ELSE [kind |-> "returned", value |-> Pop(SplitLines(RevListStdout(n)))]

\* ---- the loop of onboardCommits (lines 61-63) --------------------------
\* the loop condition
LoopContinues(idx, cs) == idx < Len(cs)

\* the commit handed to processCommit
SelectCommit(idx, cs) ==
    IF BULK_SIZE + idx > Len(cs) THEN ArrayGet(cs, Len(cs)) ELSE ArrayGet(cs, idx)

\* one evaluation of the loop head with i = idx: either the next stride
\* starts (processCommit -> mergeToCommit issues the merge) or the loop ends
LoopHead(idx, cs, callsNow, consoleNow) ==
    /\ i' = idx
    /\ IF LoopContinues(idx, cs)
       THEN /\ commitId' = SelectCommit(idx, cs)
            /\ calls' = Issue(callsNow, "merge", SelectCommit(idx, cs))
            /\ console' = Log(consoleNow, "Merging", SelectCommit(idx, cs))
            /\ pc' = "await_merge"
       ELSE /\ commitId' = commitId
            /\ calls' = callsNow
            /\ console' = consoleNow
            /\ pc' = "complete"

\* a rejected await ends onboardCommits: nothing catches it
Fail(j, o, why) ==
    /\ calls' = Complete(calls, j, o)
    /\ pc' = "failed"
    /\ thrown' = why

\* ---- Init ---------------------------------------------------------------
Init ==
    /\ args \in [OptionNames -> BOOLEAN]
    /\ repoCommits \in 0..MaxCommits
    /\ pc = "start"
    /\ calls = <<>>
    /\ console = <<>>
    /\ totalOfCommitsToOnboard = NotAssigned
    /\ commits = <<>>
    /\ i = 0
    /\ commitId = Undefined
    /\ thrown = "none"

\* ---- module top level (lines 40-44) and checkoutToBranch up to its -----
\* ---- first await (lines 83-84) ------------------------------------------
Main ==
    /\ pc = "start"
    /\ IF ~validateParameters(args)
       THEN /\ console' = Log(console, "Missing parameter " \o MissingParameter(args), 0)
            /\ pc' = "exit"
            /\ calls' = calls
       ELSE /\ console' = Log(console, "Checking out to branch", 0)
            /\ calls' = Issue(calls, "merge-abort", 0)
            /\ pc' = "await_abort_pre"
    /\ UNCHANGED <<args, repoCommits, totalOfCommitsToOnboard, commits, i, commitId, thrown>>

\* ---- checkoutToBranch, line 84 returns, line 85 is issued ----------------
AbortBeforeCheckoutReturns ==
    /\ pc = "await_abort_pre"
    /\ \E o \in Outcomes :
         IF Rejects(o)
         THEN Fail(Outstanding, o, "exec") /\ console' = console
         ELSE /\ calls' = Issue(Complete(calls, Outstanding, o), "checkout", 0)
              /\ pc' = "await_checkout"
              /\ UNCHANGED <<console, thrown>>
    /\ UNCHANGED <<args, repoCommits, totalOfCommitsToOnboard, commits, i, commitId>>

\* ---- checkoutToBranch, lines 85-91, then onboardCommits line 50 ----------
CheckoutReturns ==
    /\ pc = "await_checkout"
    /\ \E o \in Outcomes :
         IF Rejects(o)
         THEN Fail(Outstanding, o, "exec") /\ console' = console
         ELSE /\ console' = IF HasStderr(o)
                            THEN Log(console, "error: checkout stderr", 0)
                            ELSE Log(console, "Checked out to branch", 0)
              /\ calls' = Issue(Complete(calls, Outstanding, o), "count", 0)
              /\ pc' = "await_count"
              /\ thrown' = thrown
    /\ UNCHANGED <<args, repoCommits, totalOfCommitsToOnboard, commits, i, commitId>>

\* ---- getTotalOfCommitsToOnboard returns, onboardCommits lines 50-59 ------
CountReturns ==
    /\ pc = "await_count"
    /\ \E o \in Outcomes :
         LET r == getTotalOfCommitsToOnboard(o, repoCommits) IN
         IF r.kind # "returned"
         THEN /\ Fail(Outstanding, o, IF r.kind = "thrown" THEN "Error(stderr)" ELSE "exec")
              /\ UNCHANGED <<console, totalOfCommitsToOnboard>>
         ELSE /\ totalOfCommitsToOnboard' = r.value
              /\ thrown' = thrown
              /\ IF StrictEquals(r.value, Num(0))
                 THEN /\ console' = Log(console, "There are no commits to onboard", 0)
                      /\ calls' = Complete(calls, Outstanding, o)
                      /\ pc' = "done"
                 ELSE /\ console' = Log(console, "Total of Commits to onboard", r.value.val)
                      /\ calls' = Issue(Complete(calls, Outstanding, o), "list", 0)
                      /\ pc' = "await_list"
    /\ UNCHANGED <<args, repoCommits, commits, i, commitId>>

\* ---- loadCommitsToOnboard returns, the loop is entered (lines 59-63) -----
ListReturns ==
    /\ pc = "await_list"
    /\ \E o \in Outcomes :
         LET r == loadCommitsToOnboard(o, repoCommits) IN
         IF r.kind # "returned"
         THEN /\ Fail(Outstanding, o, IF r.kind = "thrown" THEN "Error(stderr)" ELSE "exec")
              /\ UNCHANGED <<console, commits, i, commitId>>
         ELSE /\ commits' = r.value
              /\ thrown' = thrown
              /\ LoopHead(BULK_SIZE, r.value, Complete(calls, Outstanding, o), console)
    /\ UNCHANGED <<args, repoCommits, totalOfCommitsToOnboard>>

\* ---- mergeToCommit (lines 104-113) ---------------------------------------
\* line 108: the merge is taken to have failed when it wrote to stderr
MergeFailed(o) == HasStderr(o)

\* push() with the cache notification fired ahead of the push
IssuePush_NotifyFirst(callsNow, consoleNow) ==
    /\ calls' = Issue(Issue(callsNow, "notify", 0), "push", 0)
    /\ console' = Log(consoleNow, "Pushing to origin", 0)
    /\ pc' = "await_push"

\* push() up to its await (lines 116-118)
IssuePush(callsNow, consoleNow) ==
    /\ calls' = Issue(callsNow, "push", 0)
    /\ console' = Log(consoleNow, "Pushing to origin", 0)
    /\ pc' = "await_push"

\* mergeToCommit with the await of line 109 missing: the push is issued while
\* the merge --abort is still running
MergeReturns_AbortNotAwaited ==
    /\ pc = "await_merge"
    /\ \E o \in Outcomes :
         IF Rejects(o)
         THEN Fail(Outstanding, o, "exec") /\ console' = console
         ELSE /\ thrown' = thrown
              /\ IF MergeFailed(o)
                 THEN IssuePush(Issue(Complete(calls, Outstanding, o), "merge-abort", 0),
                                Log(console, "Commit was merged", commitId))
                 ELSE IssuePush(Complete(calls, Outstanding, o),
                                Log(console, "Commit was merged", commitId))
    /\ UNCHANGED <<args, repoCommits, totalOfCommitsToOnboard, commits, i, commitId>>

\* the merge returns (lines 107-113); on success processCommit goes on to push
MergeReturns ==
    /\ pc = "await_merge"
    /\ \E o \in Outcomes :
         IF Rejects(o)
         THEN Fail(Outstanding, o, "exec") /\ console' = console
         ELSE /\ thrown' = thrown
              /\ IF MergeFailed(o)
                 THEN /\ calls' = Issue(Complete(calls, Outstanding, o), "merge-abort", 0)
                      /\ console' = console
                      /\ pc' = "await_abort"
                 ELSE IssuePush(Complete(calls, Outstanding, o),
                                Log(console, "Commit was merged", commitId))
    /\ UNCHANGED <<args, repoCommits, totalOfCommitsToOnboard, commits, i, commitId>>

\* the merge --abort of line 109 returns; lines 110-112, then push
AbortAfterMergeReturns ==
    /\ pc = "await_abort"
    /\ \E o \in Outcomes :
         IF Rejects(o)
         THEN Fail(Outstanding, o, "exec") /\ console' = console
         ELSE /\ thrown' = thrown
              /\ IssuePush(Complete(calls, Outstanding, o),
                           Log(Log(console, "error: merge --abort stderr", 0),
                               "Commit was merged", commitId))
    /\ UNCHANGED <<args, repoCommits, totalOfCommitsToOnboard, commits, i, commitId>>

\* the console lines of push's return, updateCodeCache and sleep
PushConsole(o) ==
    Log(Log(Log(IF HasStderr(o) THEN Log(console, "error: push stderr", 0) ELSE console,
                "push stdout", 0),
            "Updating codecache", 0),
        "Waiting to resume execution", 0)

\* the loop without its sleep: the next stride starts when the push returns
PushReturns_NoSleep ==
    /\ pc = "await_push"
    /\ \E o \in Outcomes :
         IF Rejects(o)
         THEN Fail(Outstanding, o, "exec") /\ UNCHANGED <<console, i, commitId>>
         ELSE /\ thrown' = thrown
              /\ LoopHead(i + BULK_SIZE, commits,
                          Issue(Complete(calls, Outstanding, o), "notify", 0),
                          PushConsole(o))
    /\ UNCHANGED <<args, repoCommits, totalOfCommitsToOnboard, commits>>

\* updateCodeCache awaited: the request has completed when the timer is set
PushReturns_AwaitsNotify ==
    /\ pc = "await_push"
    /\ \E o \in Outcomes :
         IF Rejects(o)
         THEN Fail(Outstanding, o, "exec") /\ console' = console
         ELSE /\ thrown' = thrown
              /\ \E r \in NotifyOutcomes :
                   calls' = Issue(Append(Complete(calls, Outstanding, o),
                                         [op |-> "notify", arg |-> 0, res |-> r]),
                                  "sleep", 0)
              /\ console' = PushConsole(o)
              /\ pc' = "sleeping"
    /\ UNCHANGED <<args, repoCommits, totalOfCommitsToOnboard, commits, i, commitId>>

\* ---- push returns (lines 118-123), updateCodeCache (lines 125-134) ------
\* ---- fires the request, sleep (lines 136-139) sets the timer ------------
PushReturns ==
    /\ pc = "await_push"
    /\ \E o \in Outcomes :
         IF Rejects(o)
         THEN Fail(Outstanding, o, "exec") /\ console' = console
         ELSE /\ thrown' = thrown
              /\ calls' = Issue(Issue(Complete(calls, Outstanding, o), "notify", 0),
                                "sleep", 0)
              /\ console' = PushConsole(o)
              /\ pc' = "sleeping"
    /\ UNCHANGED <<args, repoCommits, totalOfCommitsToOnboard, commits, i, commitId>>

\* the last merge attempt issued
LastMerge == calls[CHOOSE j \in 1..Len(calls) :
                     /\ calls[j].op = "merge"
                     /\ \A k \in (j + 1)..Len(calls) : calls[k].op # "merge"]

\* a loop that repeats the stride whose merge failed
SleepElapses_RetriesFailedStride ==
    /\ pc = "sleeping"
    /\ LoopHead(IF LastMerge.res = "stderr" THEN i ELSE i + BULK_SIZE,
                commits, Complete(calls, Outstanding, "ok"), console)
    /\ UNCHANGED <<args, repoCommits, totalOfCommitsToOnboard, commits, thrown>>

\* ---- the timer of sleep fires; the loop advances (line 61) --------------
SleepElapses ==
    /\ pc = "sleeping"
    /\ LoopHead(i + BULK_SIZE, commits, Complete(calls, Outstanding, "ok"), console)
    /\ UNCHANGED <<args, repoCommits, totalOfCommitsToOnboard, commits, thrown>>

\* a callback that throws on error instead of logging it
NotifyCompletes_ErrorRaises ==
    /\ \E j \in 1..Len(calls) : \E r \in NotifyOutcomes :
         /\ calls[j].op = "notify"
         /\ calls[j].res = "pending"
         /\ calls' = Complete(calls, j, r)
         /\ console' = Log(console, "Code Cache was updated with success", 0)
         /\ pc' = IF r = "error" THEN "failed" ELSE pc
         /\ thrown' = IF r = "error" THEN "Error(notify)" ELSE thrown
    /\ UNCHANGED <<args, repoCommits, totalOfCommitsToOnboard, commits, i, commitId>>

\* ---- the callback of request.post (lines 128-133) -----------------------
NotifyCompletes ==
    /\ \E j \in 1..Len(calls) : \E r \in NotifyOutcomes :
         /\ calls[j].op = "notify"
         /\ calls[j].res = "pending"
         /\ calls' = Complete(calls, j, r)
         /\ console' = Log(IF r = "error"
                           THEN Log(console, "error: Erro on update code-cache", 0)
                           ELSE console,
                           "Code Cache was updated with success", 0)
    /\ UNCHANGED <<args, repoCommits, pc, totalOfCommitsToOnboard, commits, i,
                   commitId, thrown>>

Next ==
    \/ Main
    \/ AbortBeforeCheckoutReturns
    \/ CheckoutReturns
    \/ CountReturns
    \/ ListReturns
    \/ MergeReturns
    \/ AbortAfterMergeReturns
    \/ PushReturns
    \/ SleepElapses
    \/ NotifyCompletes

Spec == Init /\ [][Next]_vars

TypeOK ==
    /\ pc \in {"start", "exit", "await_abort_pre", "await_checkout", "await_count",
               "await_list", "await_merge", "await_abort", "await_push", "sleeping",
               "done", "complete", "failed"}
    /\ i \in Nat
    /\ Len(commits) <= MaxCommits

\* ======================================================================
\* Properties
\* ======================================================================
Min(a, b) == IF a < b THEN a ELSE b

CeilDiv(a, b) == (a + b - 1) \div b

\* the positions of the calls of one operation
CallsOf(op) == {j \in 1..Len(calls) : calls[j].op = op}

NumCalls(op) == Cardinality(CallsOf(op))

IsMerge(c) == c.op = "merge"

\* the merge attempts in the order they were issued
Merges == SelectSeq(calls, IsMerge)

\* the operations that change the working tree or the remote
Mutating == {"merge-abort", "checkout", "merge", "push"}

IsMutating(c) == c.op \in Mutating

\* an operation that has returned, and not cleanly
Failed(c) == c.res \in {"stderr", "exit", "exit_stderr"}

RequiredOptions == {"branch-target", "owner", "repo", "repo-dir"}

MissingRequired == \E n \in RequiredOptions : ~args[n]

\* every operation issued so far has succeeded (notifications may be pending)
AllSucceeded == \A j \in 1..Len(calls) : calls[j].res \in {"ok", "pending"}

\* the count query succeeded and reported zero commits
CountZero == totalOfCommitsToOnboard.type = "string" /\ totalOfCommitsToOnboard.val = 0

\* an ancestry-diff query (count or list) has failed
EnumFailed == \E j \in 1..Len(calls) : calls[j].op \in {"count", "list"} /\ Failed(calls[j])

\* ---- C1 -----------------------------------------------------------------
\* C1: when a required option (target branch, owner, repository name, local
\* path) is missing, the run ends at validation and no version-control or
\* network operation is ever issued.
C1_NoOperationWithoutRequiredOption ==
    MissingRequired => (calls = <<>> /\ pc \in {"start", "exit"})

\* a run with a missing option that has been through validation
C1_Witness == MissingRequired /\ pc = "exit" /\ Len(console) = 1

\* ---- C2 -----------------------------------------------------------------
\* C2: for a sequence of L >= 1 commits, when every operation succeeds, the
\* completed run has issued exactly ceil(L / BULK_SIZE) merge attempts.
C2_CeilMergeAttempts ==
    (pc = "complete" /\ Len(commits) >= 1 /\ AllSucceeded)
        => NumCalls("merge") = CeilDiv(Len(commits), BULK_SIZE)

\* ---- C3 -----------------------------------------------------------------
\* C3: every commit id handed to the merge is an element of the enumerated
\* sequence, read at an index within 0..L-1.
C3_MergedCommitIsInSequence ==
    \A j \in CallsOf("merge") :
        \E k \in 0..(Len(commits) - 1) : calls[j].arg = ArrayGet(commits, k)

\* ---- C4 -----------------------------------------------------------------
\* C4: the k-th merge attempt is for the commit at index
\* min(k * BULK_SIZE, L) - 1, and a completed run has merged the newest
\* commit (index L-1) last.
C4_BoundaryIsLastOfStride ==
    /\ \A k \in 1..Len(Merges) :
          Merges[k].arg = ArrayGet(commits, Min(k * BULK_SIZE, Len(commits)) - 1)
    /\ (pc = "complete" /\ Len(commits) >= 1)
          => /\ Len(Merges) >= 1
             /\ Merges[Len(Merges)].arg = ArrayGet(commits, Len(commits) - 1)

\* ---- C5 -----------------------------------------------------------------
\* C5: a merge that failed is followed by exactly one merge-abort before any
\* other operation, and the failure does not stop the run.
C5_FailedMergeAbortedRunContinues ==
    \A j \in CallsOf("merge") :
        Failed(calls[j]) =>
            /\ Len(calls) > j
            /\ calls[j + 1].op = "merge-abort"
            /\ (Len(calls) > j + 1 => calls[j + 2].op # "merge-abort")
            /\ ~(pc = "failed" /\ Len(calls) <= j + 1)

\* ---- C6 -----------------------------------------------------------------
\* C6: when the count or the list query wrote to stderr, the run has raised
\* an error and ended, with no merge, no push and no cache notification.
C6_EnumerationErrorIsFatal ==
    (\E j \in 1..Len(calls) :
         calls[j].op \in {"count", "list"} /\ HasStderr(calls[j].res))
        => /\ pc = "failed"
           /\ thrown # "none"
           /\ NumCalls("merge") = 0
           /\ NumCalls("push") = 0
           /\ NumCalls("notify") = 0

\* the list query, issued after a successful count, wrote to stderr
C6_Witness ==
    /\ pc = "failed"
    /\ thrown = "Error(stderr)"
    /\ \E j \in CallsOf("list") : calls[j].res = "stderr"

\* ---- C7 -----------------------------------------------------------------
\* C7 as stated: when the enumeration query fails, no operation that changes
\* the working tree or the remote (merge-abort, checkout, merge, push) has
\* been issued earlier in the run.
C7_NoMutationBeforeEnumerationFailure ==
    EnumFailed => \A j \in 1..Len(calls) : ~IsMutating(calls[j])

\* C7 as amended: when the enumeration query fails, the only operations that
\* change the working tree or the remote issued earlier are the one
\* merge-abort and the one checkout of checkoutToBranch, in this order; no
\* merge and no push has been issued.
C7_OnlyPreparationBeforeEnumerationFailure ==
    EnumFailed =>
        /\ pc = "failed"
        /\ Len(SelectSeq(calls, IsMutating)) = 2
        /\ calls[1].op = "merge-abort"
        /\ calls[2].op = "checkout"
        /\ NumCalls("merge") = 0
        /\ NumCalls("push") = 0

\* the count query failed right after the branch was prepared
C7_Witness ==
    /\ pc = "failed"
    /\ Len(calls) = 3
    /\ calls[3].op = "count"
    /\ Failed(calls[3])
    /\ ~Failed(calls[2])

\* ---- C8 -----------------------------------------------------------------
\* C8: when the count is zero, the run ends normally after the preparation,
\* with no further merge-abort and no merge, push or cache notification.
C8_ZeroCountEndsNormallyWithoutCalls ==
    CountZero =>
        /\ pc # "failed"
        /\ NumCalls("merge-abort") = 1
        /\ NumCalls("merge") = 0
        /\ NumCalls("push") = 0
        /\ NumCalls("notify") = 0

\* ---- C9 -----------------------------------------------------------------
\* C9: when the count query reports zero, the run is done right after it:
\* the list query is never issued and the loop is never entered.
C9_ZeroCountSkipsList ==
    CountZero => (pc = "done" /\ NumCalls("list") = 0)

\* ---- C10 ----------------------------------------------------------------
\* C10: a failure of the merge-abort that precedes the checkout is swallowed:
\* the run does not end on it and the checkout is still issued.
C10_AbortBeforeCheckoutFailureSwallowed ==
    (Len(calls) >= 1 /\ calls[1].op = "merge-abort" /\ Failed(calls[1]))
        => /\ Len(calls) >= 2
           /\ calls[2].op = "checkout"
           /\ ~(pc = "failed" /\ Len(calls) = 1)

\* ---- helpers for the claims about strides --------------------------------
\* the subprocesses and timers still running (everything but notifications)
PendingAwaited == {j \in 1..Len(calls) : calls[j].res = "pending" /\ calls[j].op # "notify"}

\* the last position of the stride whose merge is at position j
StrideEnd(j) ==
    IF \E k \in (j + 1)..Len(calls) : calls[k].op = "merge"
    THEN (CHOOSE k \in (j + 1)..Len(calls) :
             /\ calls[k].op = "merge"
             /\ \A m \in (j + 1)..(k - 1) : calls[m].op # "merge") - 1
    ELSE Len(calls)

\* the calls of one operation within the stride whose merge is at position j
InStride(j, op) == {k \in j..StrideEnd(j) : calls[k].op = op}

\* the operations this step has issued
IssuedNow(op) == {k \in (Len(calls) + 1)..Len(calls') : calls'[k].op = op}

\* this step is the return of a call of the given operation
ReturnsNow(op) ==
    \E j \in 1..Len(calls) :
        calls[j].op = op /\ calls[j].res = "pending" /\ calls'[j].res # "pending"

\* the number of console lines with the given text
NumLogged(msg) == Cardinality({k \in 1..Len(console) : console[k][1] = msg})

\* ---- C11 ----------------------------------------------------------------
\* C11: a push that failed does not end the run: the notification of its
\* stride is fired and the pacer is started.
C11_PushFailureNotFatal ==
    \A j \in CallsOf("push") :
        Failed(calls[j]) =>
            /\ Len(calls) >= j + 2
            /\ calls[j + 1].op = "notify"
            /\ calls[j + 2].op = "sleep"
            /\ ~(pc = "failed" /\ Len(calls) = j)

\* ---- C12 ----------------------------------------------------------------
\* C12: the completion of a notification, with or without an error, changes
\* nothing of the driver: its position, cursor, commits and error state stay,
\* every other call keeps its state, and no operation is issued (no retry).
C12_NotificationNeverAltersDriver ==
    [][ReturnsNow("notify") =>
          /\ pc' = pc
          /\ i' = i
          /\ commitId' = commitId
          /\ commits' = commits
          /\ thrown' = thrown
          /\ Len(calls') = Len(calls)
          /\ \A k \in 1..Len(calls) : calls[k].op # "notify" => calls'[k] = calls[k]
       ]_vars

\* the notification of the first stride has reported an error while the
\* merge of the second stride is running
C12_Witness ==
    /\ pc = "await_merge"
    /\ Len(Merges) = 2
    /\ NumCalls("notify") = 1
    /\ \E j \in CallsOf("notify") : calls[j].res = "error"
    /\ NumLogged("error: Erro on update code-cache") = 1

\* ---- C13 ----------------------------------------------------------------
\* C13: every merge but the first is issued right after a pacer wait that has
\* elapsed, and that wait was started after the notification of the previous
\* stride was fired.
C13_PacerBetweenStrides ==
    \A j \in CallsOf("merge") :
        (\E k \in 1..(j - 1) : calls[k].op = "merge") =>
            /\ calls[j - 1].op = "sleep"
            /\ calls[j - 1].res = "ok"
            /\ calls[j - 2].op = "notify"

\* the merge of a second stride has been issued
C13_Witness == Len(Merges) = 2 /\ pc = "await_merge"

\* ---- C14 ----------------------------------------------------------------
\* C14: the operations are issued in the order merge-abort, checkout, count,
\* list, and then per stride merge, (merge-abort,) push, notification, pacer
\* wait; an operation is issued only when the one before it has returned,
\* the pacer wait excepted, which is started as soon as the notification is
\* fired.
Follows(op) ==
    CASE op = "checkout" -> {"merge-abort"}
      [] op = "count" -> {"checkout"}
      [] op = "list" -> {"count"}
      [] op = "merge" -> {"list", "sleep"}
      [] op = "merge-abort" -> {"merge"}
      [] op = "push" -> {"merge", "merge-abort"}
      [] op = "notify" -> {"push"}
      [] op = "sleep" -> {"notify"}

C14_FixedOrderOfOperations ==
    /\ Len(calls) >= 1 => calls[1].op = "merge-abort"
    /\ \A j \in 2..Len(calls) :
          /\ calls[j - 1].op \in Follows(calls[j].op)
          /\ calls[j].op # "sleep" => calls[j - 1].res \in {"ok", "stderr"}
          /\ (calls[j].op = "merge-abort") => calls[j - 1].res = "stderr"

\* a run with two strides, the first with a merge that was aborted
C14_Witness ==
    /\ pc = "complete"
    /\ Len(Merges) = 2
    /\ \E j \in CallsOf("merge") : calls[j].res = "stderr" /\ calls[j + 1].op = "merge-abort"

\* ---- C15 ----------------------------------------------------------------
\* C15: the cursor never moves backwards, the end of a pacer wait moves it by
\* exactly BULK_SIZE whatever the merge of the stride did, and a merge is
\* never issued for a commit an earlier merge was issued for.
C15_CursorAdvancesByStrideNoRetry ==
    [][/\ i' >= i
       /\ ReturnsNow("sleep") => i' = i + BULK_SIZE
       /\ \A k \in IssuedNow("merge") :
             \A j \in CallsOf("merge") : calls[j].arg # calls'[k].arg
      ]_vars

\* the merge of the first stride failed and was aborted, the cursor has moved on
C15_Witness ==
    /\ i = 2 * BULK_SIZE
    /\ Len(Merges) = 2
    /\ Merges[1].res = "stderr"

\* ---- C16 ----------------------------------------------------------------
\* C16: at most one subprocess or pacer wait is outstanding at any time, and
\* while a merge is outstanding nothing of an earlier stride is; only cache
\* notifications run beside other operations.
C16_OneOutstandingOperation ==
    /\ Cardinality(PendingAwaited) <= 1
    /\ \A j \in CallsOf("merge") :
          calls[j].res = "pending" =>
              \A k \in 1..(j - 1) : calls[k].op # "notify" => calls[k].res # "pending"

\* a push is outstanding while the notification of the stride before is too
C16_Witness ==
    \E j \in CallsOf("push") : \E k \in CallsOf("notify") :
        k < j /\ calls[j].res = "pending" /\ calls[k].res = "pending"

\* ---- C17 ----------------------------------------------------------------
\* C17: the notification is not awaited: when the pacer wait is started the
\* notification fired just before it is still outstanding.
C17_NotificationNotAwaited ==
    [][\A k \in IssuedNow("sleep") :
          /\ calls'[k - 1].op = "notify"
          /\ calls'[k - 1].res = "pending"
          /\ pc' = "sleeping"
      ]_vars

\* the notification of the first stride completes after the push of the
\* second stride was issued, and after the notification of the second stride
C17_Witness ==
    /\ Len(Merges) = 2
    /\ NumCalls("push") = 2
    /\ NumCalls("notify") = 2
    /\ \E j, k \in CallsOf("notify") :
          j < k /\ calls[j].res = "pending" /\ calls[k].res # "pending"

\* ---- C18 ----------------------------------------------------------------
\* C18: a run that has passed validation ends in one of three ways only: the
\* loop is complete with the cursor past the end, the count was zero, or an
\* enumeration query failed; and no stride is started with the cursor past
\* the end.
C18_EndsCompleteDoneOrEnumerationError ==
    /\ pc \in {"complete", "done", "failed"} =>
          \/ pc = "complete" /\ i >= Len(commits)
          \/ pc = "done" /\ CountZero
          \/ pc = "failed" /\ EnumFailed
    /\ pc = "await_merge" => i < Len(commits)

\* ---- C19 ----------------------------------------------------------------
\* C19: the confirmation that a commit was merged is written only for a merge
\* that succeeded: there are no more confirmations than successful merges.
C19_ConfirmationOnlyForSuccessfulMerge ==
    NumLogged("Commit was merged")
        <= Cardinality({j \in CallsOf("merge") : calls[j].res = "ok"})

\* ---- C20 ----------------------------------------------------------------
\* C20: a stride whose merge (and merge-abort, if any) has returned has issued
\* exactly one push, and once that push has returned exactly one notification.
C20_OnePushOneNotifyPerStride ==
    \A j \in CallsOf("merge") :
        LET running(ops) == \E k \in j..StrideEnd(j) :
                                calls[k].op \in ops /\ calls[k].res = "pending"
        IN /\ ~running({"merge", "merge-abort"})
                => Cardinality(InStride(j, "push")) = 1
           /\ ~running({"merge", "merge-abort", "push"})
                => Cardinality(InStride(j, "notify")) = 1

====
